---- MODULE Spec2Model ----
(***************************************************************************)
(* DirectedGraph of src/d_graph.py: an adjacency matrix kept as a list of  *)
(* rows, its mutators, the two traversals, the cycle detector and the      *)
(* FIFO shortest-path solver.                                              *)
(*                                                                         *)
(* Python values are encoded as follows.  A list is a sequence; the Python *)
(* index i is the TLA+ index i + 1.  An optional value is a sequence of    *)
(* length at most one: None is << >> and the value x is << x >>.           *)
(* float('inf') is the sentinel Inf, handled by Plus and Less.             *)
(***************************************************************************)
EXTENDS Integers, Sequences, FiniteSets, TLC

\* Largest number of vertices of a graph built by the mutators.
MaxV == 3
\* Longest initial edge list handed to the constructor.
MaxStartEdges == 2
\* Largest edge weight of the graphs the shortest-path solver is run on.
MaxWeight == 3
\* Largest number of edges of those graphs.
MaxEdges == 4

VARIABLES
    v_count,      \* self.v_count
    adj_matrix,   \* self.adj_matrix
    raised,       \* TRUE when the last call ended in an IndexError
    pc,           \* position of the current call
    call,         \* the last call: its name and, for the constructor and the
                  \* algorithms, its arguments
    ret,          \* optional return value of the last call
    visited,      \* dfs / bfs: visited
    work,         \* dfs: stack;  bfs, dijkstra: queue
    v_end,        \* dfs / bfs: v_end after the index check
    distances,    \* dijkstra: distances
    hc_i,         \* has_cycle: the root i of the outer loop
    hc_adj,       \* has_cycle: what is left of adjacent_list
    frames        \* has_cycle_helper: the recursion, innermost call last

graph  == <<v_count, adj_matrix, raised>>
locals == <<visited, work, v_end, distances, hc_i, hc_adj, frames>>
vars   == <<v_count, adj_matrix, raised, pc, call, ret,
            visited, work, v_end, distances, hc_i, hc_adj, frames>>

None == << >>
Some(x) == << x >>

\* x in lst
In(x, lst) == \E k \in 1..Len(lst) : lst[k] = x

\* [0] * n
Zeros(n) == [k \in 1..n |-> 0]

\* max(a, b)
Max2(a, b) == IF a >= b THEN a ELSE b

----------------------------------------------------------------------------
(* Store and mutators                                                      *)

\* The zero-based position a Python list of length len gives index i, or -1
\* when the access raises IndexError.
PyIndex(len, i) ==
    IF i >= 0 /\ i < len THEN i
    ELSE IF i < 0 /\ i + len >= 0 THEN i + len
    ELSE -1

\* self.adj_matrix[src][dst] = w
SetItem(m, src, dst, w) ==
    LET r == PyIndex(Len(m), src)
    IN  IF r < 0 THEN [ok |-> FALSE, m |-> m]
        ELSE LET c == PyIndex(Len(m[r + 1]), dst)
             IN  IF c < 0 THEN [ok |-> FALSE, m |-> m]
                 ELSE [ok |-> TRUE, m |-> [m EXCEPT ![r + 1][c + 1] = w]]

\* add_vertex with the last loop (one more column in every old row) left out
add_vertex_ragged(n, m) ==
    LET m1 == Append(m, <<0>>)
        n1 == n + 1
    IN  [v_count |-> n1, adj_matrix |-> [m1 EXCEPT ![n1] = @ \o Zeros(n1 - 1)]]

\* add_vertex: the new count and the new matrix
add_vertex(n, m) ==
    LET m1 == Append(m, <<0>>)
        n1 == n + 1
        m2 == [m1 EXCEPT ![n1] = @ \o Zeros(n1 - 1)]
        m3 == [k \in 1..Len(m2) |-> IF k <= n1 - 1 THEN Append(m2[k], 0) ELSE m2[k]]
    IN  [v_count |-> n1, adj_matrix |-> m3]

\* add_edge without the tests src < 0 and dst < 0
add_edge_no_negative_test(n, m, src, dst, weight) ==
    IF src >= n \/ dst >= n \/ weight < 1 \/ src = dst
    THEN [ok |-> TRUE, m |-> m]
    ELSE SetItem(m, src, dst, weight)

\* add_edge: whether it returned normally, and the new matrix
add_edge(n, m, src, dst, weight) ==
    IF src >= n \/ dst >= n \/ weight < 1 \/ src = dst \/ src < 0 \/ dst < 0
    THEN [ok |-> TRUE, m |-> m]
    ELSE SetItem(m, src, dst, weight)

\* remove_edge: whether it returned normally, and the new matrix
remove_edge(n, m, src, dst) ==
    IF src >= n \/ dst >= n \/ src < 0 \/ dst < 0
    THEN [ok |-> TRUE, m |-> m]
    ELSE SetItem(m, src, dst, 0)

\* __init__, first loop: v_count = max(v_count, u, v) over the list
RECURSIVE CountLoop(_, _)
CountLoop(edges, acc) ==
    IF edges = << >> THEN acc
    ELSE CountLoop(Tail(edges), Max2(Max2(acc, Head(edges)[1]), Head(edges)[2]))

\* __init__, second loop: add_vertex() k times
RECURSIVE AddVertices(_, _)
AddVertices(g, k) ==
    IF k <= 0 THEN g
    ELSE AddVertices(add_vertex(g.v_count, g.adj_matrix), k - 1)

\* __init__, third loop: add_edge(u, v, weight) over the list
RECURSIVE AddEdges(_, _)
AddEdges(g, edges) ==
    IF edges = << >> THEN g
    ELSE LET e == Head(edges)
             r == add_edge(g.v_count, g.adj_matrix, e[1], e[2], e[3])
         IN  AddEdges([v_count |-> g.v_count, adj_matrix |-> r.m], Tail(edges))

\* __init__(start_edges): the graph it leaves
Construct(start_edges) ==
    LET empty == [v_count |-> 0, adj_matrix |-> << >>]
    IN  IF start_edges = None THEN empty
        ELSE LET edges == start_edges[1]
             IN  AddEdges(AddVertices(empty, CountLoop(edges, 0) + 1), edges)

----------------------------------------------------------------------------
(* Inputs                                                                  *)

\* Index arguments of the mutators and the traversals: every valid index,
\* one below the range and, with MaxV, one above it.
IdxArgs == -1..MaxV
\* Weight arguments of add_edge: two invalid ones and a valid one.
WeightArgs == {-1, 0, 1}
\* Indices and weights of the triples of an initial edge list.
StartIdx == -1..(MaxV - 1)
StartWeights == {0, 1, 2}

Triples(W) == {<<u, v, w>> : u \in StartIdx, v \in StartIdx, w \in W}

\* The lists of at most len triples.
RECURSIVE ListsUpTo(_, _)
ListsUpTo(T, len) ==
    IF len = 0 THEN {<< >>}
    ELSE LET shorter == ListsUpTo(T, len - 1)
         IN  shorter \cup {Append(l, t) : l \in {s \in shorter : Len(s) = len - 1}, t \in T}

\* start_edges: None or a list
StartEdges(W) == {None} \cup {Some(l) : l \in ListsUpTo(Triples(W), MaxStartEdges)}

Idle ==
    /\ pc = "idle"
    /\ call = [op |-> "none"]
    /\ ret = None
    /\ visited = << >>
    /\ work = << >>
    /\ v_end = None
    /\ distances = << >>
    /\ hc_i = 0
    /\ hc_adj = << >>
    /\ frames = << >>

----------------------------------------------------------------------------
(* Spec: a graph after construction, and the mutators called on it         *)

Init ==
    /\ \E se \in StartEdges({0, 1}) :
          LET g == Construct(se)
          IN  v_count = g.v_count /\ adj_matrix = g.adj_matrix
    /\ raised = FALSE
    /\ Idle

AddVertex ==
    /\ v_count < MaxV
    /\ LET g == add_vertex(v_count, adj_matrix)
       IN  /\ v_count' = g.v_count
           /\ adj_matrix' = g.adj_matrix
           /\ ret' = Some(g.v_count)
    /\ raised' = FALSE
    /\ call' = [op |-> "add_vertex"]
    /\ UNCHANGED <<pc, locals>>

AddEdge(src, dst, weight) ==
    /\ call' = [op |-> "add_edge"]
    /\ LET r == add_edge(v_count, adj_matrix, src, dst, weight)
       IN  adj_matrix' = r.m /\ raised' = ~r.ok
    /\ ret' = None
    /\ UNCHANGED <<v_count, pc, locals>>

RemoveEdge(src, dst) ==
    /\ call' = [op |-> "remove_edge"]
    /\ LET r == remove_edge(v_count, adj_matrix, src, dst)
       IN  adj_matrix' = r.m /\ raised' = ~r.ok
    /\ ret' = None
    /\ UNCHANGED <<v_count, pc, locals>>

Next ==
    \/ AddVertex
    \/ \E src \in IdxArgs, dst \in IdxArgs, weight \in WeightArgs : AddEdge(src, dst, weight)
    \/ \E src \in IdxArgs, dst \in IdxArgs : RemoveEdge(src, dst)

Spec == Init /\ [][Next]_vars

----------------------------------------------------------------------------
(* SpecInit: the constructor applied to an initial edge list               *)

InitNew ==
    /\ v_count = 0
    /\ adj_matrix = << >>
    /\ raised = FALSE
    /\ pc = "new"
    /\ \E se \in StartEdges(StartWeights) : call = [op |-> "__init__", start_edges |-> se]
    /\ ret = None
    /\ visited = << >>
    /\ work = << >>
    /\ v_end = None
    /\ distances = << >>
    /\ hc_i = 0
    /\ hc_adj = << >>
    /\ frames = << >>

DoInit ==
    /\ pc = "new"
    /\ LET g == Construct(call.start_edges)
       IN  v_count' = g.v_count /\ adj_matrix' = g.adj_matrix
    /\ pc' = "done"
    /\ UNCHANGED <<raised, call, ret, locals>>

SpecInit == InitNew /\ [][DoInit]_vars

----------------------------------------------------------------------------
(* Traversals                                                              *)

\* dfs, the for loop over range(len(v) - 1, -1, -1), from index i downwards
RECURSIVE DfsScan(_, _, _, _, _)
DfsScan(v, i, vis, stk, e) ==
    IF i < 0 THEN [visited |-> vis, work |-> stk, returned |-> FALSE]
    ELSE LET stk1 == IF v[i + 1] > 0 /\ ~In(i, vis) THEN Append(stk, i) ELSE stk
         IN  IF e = Some(i)
             THEN [visited |-> Append(vis, i), work |-> stk1, returned |-> TRUE]
             ELSE DfsScan(v, i - 1, vis, stk1, e)

\* One turn of the dfs loop that appends the popped vertex to visited
\* without testing whether it is there already
DfsIterNoVisitedTest(m, vis, stk, e) ==
    LET index == stk[Len(stk)]
        stk1  == SubSeq(stk, 1, Len(stk) - 1)
        vis1  == Append(vis, index)
        v     == m[index + 1]
    IN  DfsScan(v, Len(v) - 1, vis1, stk1, e)

\* One turn of the dfs loop that reads the top of the stack and leaves it
\* there (stack[-1] for stack.pop())
DfsIterNoPop(m, vis, stk, e) ==
    LET index == stk[Len(stk)]
        vis1  == IF In(index, vis) THEN vis ELSE Append(vis, index)
        v     == m[index + 1]
    IN  DfsScan(v, Len(v) - 1, vis1, stk, e)

\* dfs, one turn of the while loop: pop, visit, scan the row
DfsIter(m, vis, stk, e) ==
    LET index == stk[Len(stk)]
        stk1  == SubSeq(stk, 1, Len(stk) - 1)
        vis1  == IF In(index, vis) THEN vis ELSE Append(vis, index)
        v     == m[index + 1]
    IN  DfsScan(v, Len(v) - 1, vis1, stk1, e)

\* dfs, the while loop and the return after it
RECURSIVE DfsLoop(_, _, _, _)
DfsLoop(m, vis, stk, e) ==
    IF stk = << >> THEN vis
    ELSE LET r == DfsIter(m, vis, stk, e)
         IN  IF r.returned THEN r.visited ELSE DfsLoop(m, r.visited, r.work, e)

\* bfs, the for loop over range(self.v_count), from index i upwards
RECURSIVE BfsScan(_, _, _, _, _, _)
BfsScan(v, i, n, vis, q, e) ==
    IF i >= n THEN [visited |-> vis, work |-> q, returned |-> FALSE]
    ELSE LET q1 == IF v[i + 1] > 0 /\ ~In(i, vis) THEN Append(q, i) ELSE q
         IN  IF e = Some(i)
             THEN [visited |-> Append(vis, i), work |-> q1, returned |-> TRUE]
             ELSE BfsScan(v, i + 1, n, vis, q1, e)

\* One turn of the bfs loop that takes the newest entry of the queue
\* (pop() for pop(0))
BfsIterPopLast(m, n, vis, q, e) ==
    LET index == q[Len(q)]
        vis1  == IF In(index, vis) THEN vis ELSE Append(vis, index)
    IN  BfsScan(m[index + 1], 0, n, vis1, SubSeq(q, 1, Len(q) - 1), e)

\* bfs, one turn of the while loop: pop(0), visit, scan the row
BfsIter(m, n, vis, q, e) ==
    LET index == Head(q)
        vis1  == IF In(index, vis) THEN vis ELSE Append(vis, index)
    IN  BfsScan(m[index + 1], 0, n, vis1, Tail(q), e)

\* bfs, the while loop and the return after it
RECURSIVE BfsLoop(_, _, _, _, _)
BfsLoop(m, n, vis, q, e) ==
    IF q = << >> THEN vis
    ELSE LET r == BfsIter(m, n, vis, q, e)
         IN  IF r.returned THEN r.visited ELSE BfsLoop(m, n, r.visited, r.work, e)

\* The index checks both traversals open with: "empty" when v_start is
\* invalid, "fall" when a v_end was given (the elif branch is taken, the
\* else branch holding the search is not, and the function ends without a
\* return statement), "search" otherwise.
Entry(m, s, e) ==
    IF s < 0 \/ s >= Len(m) THEN "empty"
    ELSE IF e # None THEN "fall"
    ELSE "search"

\* v_end after the elif branch: an invalid index is replaced by None
EndArg(m, e) ==
    IF e # None /\ (e[1] < 0 \/ e[1] >= Len(m)) THEN None ELSE e

CallTraversal(name, s, e) ==
    /\ pc = "idle"
    /\ call' = [op |-> name, v_start |-> s, v_end |-> e]
    /\ visited' = << >>
    /\ LET way == Entry(adj_matrix, s, e)
       IN  /\ pc' = IF way = "search" THEN name ELSE "done"
           /\ ret' = IF way = "empty" THEN Some(<< >>) ELSE None
           /\ v_end' = IF way = "fall" THEN EndArg(adj_matrix, e) ELSE e
           /\ work' = IF way = "search" THEN <<s>> ELSE << >>
    /\ UNCHANGED <<graph, distances, hc_i, hc_adj, frames>>

CallDfs(s, e) == CallTraversal("dfs", s, e)

CallBfs(s, e) == CallTraversal("bfs", s, e)

DfsStep ==
    /\ pc = "dfs"
    /\ IF work = << >>
       THEN /\ pc' = "done"
            /\ ret' = Some(visited)
            /\ UNCHANGED <<visited, work>>
       ELSE LET r == DfsIter(adj_matrix, visited, work, v_end)
            IN  /\ visited' = r.visited
                /\ work' = r.work
                /\ pc' = IF r.returned THEN "done" ELSE pc
                /\ ret' = IF r.returned THEN Some(r.visited) ELSE ret
    /\ UNCHANGED <<graph, call, v_end, distances, hc_i, hc_adj, frames>>

BfsStep ==
    /\ pc = "bfs"
    /\ IF work = << >>
       THEN /\ pc' = "done"
            /\ ret' = Some(visited)
            /\ UNCHANGED <<visited, work>>
       ELSE LET r == BfsIter(adj_matrix, v_count, visited, work, v_end)
            IN  /\ visited' = r.visited
                /\ work' = r.work
                /\ pc' = IF r.returned THEN "done" ELSE pc
                /\ ret' = IF r.returned THEN Some(r.visited) ELSE ret
    /\ UNCHANGED <<graph, call, v_end, distances, hc_i, hc_adj, frames>>

----------------------------------------------------------------------------
(* Cycle detector                                                          *)

\* The list of j in range(n) with m[v][j] > 0, ascending
Successors(m, n, v) ==
    SelectSeq([j \in 1..n |-> j - 1], LAMBDA j : m[v + 1][j + 1] > 0)

\* The test of has_cycle_helper with the matrix read the other way round
ForwardEdge(m, v, vis) == \E k \in 1..Len(vis) : m[vis[k] + 1][v + 1] > 0

\* has_cycle_helper, "for i in visited: if self.adj_matrix[v][i] > 0"
BackEdge(m, v, vis) == \E k \in 1..Len(vis) : m[v + 1][vis[k] + 1] > 0

CallHasCycle ==
    /\ pc = "idle"
    /\ call' = [op |-> "has_cycle"]
    /\ pc' = "has_cycle"
    /\ hc_i' = 0
    /\ hc_adj' = IF v_count > 0 THEN Successors(adj_matrix, v_count, 0) ELSE << >>
    /\ frames' = << >>
    /\ UNCHANGED <<graph, ret, visited, work, v_end, distances>>

\* has_cycle, between two calls of the helper: the next adjacent of the
\* root i, or the next root, or the final return False
HcOuter ==
    /\ pc = "has_cycle"
    /\ IF hc_i >= v_count
       THEN /\ pc' = "done"
            /\ ret' = Some(FALSE)
            /\ UNCHANGED <<hc_i, hc_adj, frames>>
       ELSE IF hc_adj = << >>
       THEN /\ hc_i' = hc_i + 1
            /\ hc_adj' = IF hc_i + 1 < v_count
                         THEN Successors(adj_matrix, v_count, hc_i + 1)
                         ELSE << >>
            /\ UNCHANGED <<pc, ret, frames>>
       ELSE LET adjacent == Head(hc_adj)
            IN  /\ hc_adj' = Tail(hc_adj)
                /\ frames' = << [vertex  |-> adjacent,
                                 visited |-> <<hc_i>>,
                                 stack   |-> Successors(adj_matrix, v_count, adjacent)] >>
                /\ pc' = "has_cycle_helper"
                /\ UNCHANGED <<ret, hc_i>>
    /\ UNCHANGED <<graph, call, visited, work, v_end, distances>>

\* has_cycle_helper, one turn of the while loop of the innermost call: it
\* returns False on an empty stack, returns True (through every caller) on
\* an edge back into visited, and calls itself otherwise
HcHelper ==
    /\ pc = "has_cycle_helper"
    /\ LET d   == Len(frames)
           top == frames[d]
       IN  IF top.stack = << >>
           THEN /\ frames' = SubSeq(frames, 1, d - 1)
                /\ pc' = IF d = 1 THEN "has_cycle" ELSE pc
                /\ ret' = ret
           ELSE LET v    == top.stack[Len(top.stack)]
                    rest == SubSeq(top.stack, 1, Len(top.stack) - 1)
                IN  IF BackEdge(adj_matrix, v, top.visited)
                    THEN /\ frames' = << >>
                         /\ pc' = "done"
                         /\ ret' = Some(TRUE)
                    ELSE /\ frames' = Append([frames EXCEPT ![d].stack = rest],
                                             [vertex  |-> v,
                                              visited |-> Append(top.visited, top.vertex),
                                              stack   |-> Successors(adj_matrix, v_count, v)])
                         /\ pc' = pc
                         /\ ret' = ret
    /\ UNCHANGED <<graph, call, visited, work, v_end, distances, hc_i, hc_adj>>

----------------------------------------------------------------------------
(* Shortest paths                                                          *)

\* float('inf')
Inf == -1

\* a + b on integers and float('inf')
Plus(a, b) == IF a = Inf \/ b = Inf THEN Inf ELSE a + b

\* a < b on integers and float('inf')
Less(a, b) == a # Inf /\ (b = Inf \/ a < b)

\* dijkstra, the for loop over range(self.v_count), from index i upwards,
\* with a relaxed vertex queued only when it was never reached before
RECURSIVE RelaxQueueOnce(_, _, _, _, _, _)
RelaxQueueOnce(m, v, i, n, dist, q) ==
    IF i >= n THEN [distances |-> dist, work |-> q]
    ELSE LET w == m[v + 1][i + 1]
             d == Plus(dist[v + 1], w)
         IN  IF w > 0 /\ Less(d, dist[i + 1])
             THEN RelaxQueueOnce(m, v, i + 1, n, [dist EXCEPT ![i + 1] = d],
                                 IF dist[i + 1] = Inf THEN Append(q, i) ELSE q)
             ELSE RelaxQueueOnce(m, v, i + 1, n, dist, q)

\* dijkstra, the for loop over range(self.v_count), from index i upwards
RECURSIVE Relax(_, _, _, _, _, _)
Relax(m, v, i, n, dist, q) ==
    IF i >= n THEN [distances |-> dist, work |-> q]
    ELSE LET w == m[v + 1][i + 1]
             d == Plus(dist[v + 1], w)
         IN  IF w > 0 /\ Less(d, dist[i + 1])
             THEN Relax(m, v, i + 1, n, [dist EXCEPT ![i + 1] = d],
                        IF In(i, q) THEN q ELSE Append(q, i))
             ELSE Relax(m, v, i + 1, n, dist, q)

\* dijkstra(src) with src in range(self.v_count)
CallDijkstra(src) ==
    /\ pc = "idle"
    /\ call' = [op |-> "dijkstra", src |-> src]
    /\ distances' = [[k \in 1..v_count |-> Inf] EXCEPT ![src + 1] = 0]
    /\ work' = <<src>>
    /\ pc' = "dijkstra"
    /\ UNCHANGED <<graph, ret, visited, v_end, hc_i, hc_adj, frames>>

DijkstraStep ==
    /\ pc = "dijkstra"
    /\ IF work = << >>
       THEN /\ pc' = "done"
            /\ ret' = Some(distances)
            /\ UNCHANGED <<distances, work>>
       ELSE LET r == Relax(adj_matrix, Head(work), 0, v_count, distances, Tail(work))
            IN  /\ distances' = r.distances
                /\ work' = r.work
                /\ UNCHANGED <<pc, ret>>
    /\ UNCHANGED <<graph, call, visited, v_end, hc_i, hc_adj, frames>>

----------------------------------------------------------------------------
(* The graphs the algorithms are run on                                    *)

OffDiagonal(n) == {p \in (1..n) \X (1..n) : p[1] # p[2]}

\* The n x n matrix with f on the cells of E and 0 elsewhere: the graph
\* that add_vertex, called n times, and add_edge, called for each cell of
\* E, build.
Matrix(n, E, f) ==
    [i \in 1..n |-> [j \in 1..n |-> IF <<i, j>> \in E THEN f[<<i, j>>] ELSE 0]]

\* The sets of at most k cells off the diagonal
EdgeSets(n, k) == {D \in SUBSET OffDiagonal(n) : Cardinality(D) <= k}

\* The edge list of the examples of __main__
ExampleEdges ==
    << <<0, 1, 10>>, <<4, 0, 12>>, <<1, 4, 15>>, <<4, 3, 3>>,
       <<3, 1, 5>>, <<2, 1, 23>>, <<3, 2, 7>> >>

\* g = DirectedGraph(edges) of the examples
ExampleGraph == Construct(Some(ExampleEdges)).adj_matrix

\* v_start and v_end of a traversal of a graph of n vertices
StartArgs(n) == -1..n
EndArgs(n) == {None} \cup {Some(e) : e \in -1..n}

----------------------------------------------------------------------------
(* SpecAlg: one call of an algorithm on a graph of at most MaxV vertices   *)
(* with all weights 1 (the traversals and the cycle detector only test a   *)
(* weight for being positive), or on the graph of the examples             *)

InitAlg ==
    /\ \/ \E n \in 0..MaxV : \E f \in [OffDiagonal(n) -> {0, 1}] :
             adj_matrix = Matrix(n, OffDiagonal(n), f)
       \/ adj_matrix = ExampleGraph
    /\ v_count = Len(adj_matrix)
    /\ raised = FALSE
    /\ Idle

NextAlg ==
    \/ \E s \in StartArgs(v_count), e \in EndArgs(v_count) : CallDfs(s, e)
    \/ \E s \in StartArgs(v_count), e \in EndArgs(v_count) : CallBfs(s, e)
    \/ DfsStep
    \/ BfsStep
    \/ CallHasCycle
    \/ HcOuter
    \/ HcHelper
    \/ \E src \in 0..(v_count - 1) : CallDijkstra(src)
    \/ DijkstraStep

SpecAlg == InitAlg /\ [][NextAlg]_vars

\* A call, once made, runs on: nothing else is scheduled.
FairAlg == SpecAlg /\ WF_vars(NextAlg)

----------------------------------------------------------------------------
(* SpecDijkstra: one call of dijkstra on a graph of four vertices with at  *)
(* most MaxEdges edges, each of weight 1 or MaxWeight, or on the graph of  *)
(* the examples.  Four vertices are the fewest on which a vertex that has  *)
(* left the queue is reached again by a shorter path and has a successor   *)
(* to pass the gain on to.                                                 *)

InitDijkstra ==
    /\ \/ \E E \in EdgeSets(4, MaxEdges) : \E f \in [E -> {1, MaxWeight}] :
             adj_matrix = Matrix(4, E, f)
       \/ adj_matrix = ExampleGraph
    /\ v_count = Len(adj_matrix)
    /\ raised = FALSE
    /\ Idle

NextDijkstra ==
    \/ \E src \in 0..(v_count - 1) : CallDijkstra(src)
    \/ DijkstraStep

SpecDijkstra == InitDijkstra /\ [][NextDijkstra]_vars

----------------------------------------------------------------------------
(* Graph theory the results are compared with                              *)

Edge(m, a, b) == m[a + 1][b + 1] > 0

\* The least set holding S and closed under the edges of m
RECURSIVE Closure(_, _, _)
Closure(m, n, S) ==
    LET T == S \cup {b \in 0..(n - 1) : \E a \in S : Edge(m, a, b)}
    IN  IF T = S THEN S ELSE Closure(m, n, T)

\* The vertices a directed path leads to from s, s itself among them
Reachable(m, n, s) == Closure(m, n, {s})

\* The vertices a directed path of at least one edge leads to from s
ReachableByEdges(m, n, s) == Closure(m, n, {b \in 0..(n - 1) : Edge(m, s, b)})

HasDirectedCycle(m, n) == \E v \in 0..(n - 1) : v \in ReachableByEdges(m, n, v)

\* The number of edges of a shortest path from the set S, k edges away from
\* the start, to t (t reachable)
RECURSIVE HopsFrom(_, _, _, _, _)
HopsFrom(m, n, S, k, t) ==
    IF t \in S THEN k
    ELSE HopsFrom(m, n, S \cup {b \in 0..(n - 1) : \E a \in S : Edge(m, a, b)}, k + 1, t)

Hops(m, n, s, t) == HopsFrom(m, n, {s}, 0, t)

\* Breadth-first search by the book: a vertex is recorded when it is first
\* discovered, neighbours are scanned in ascending order, and no vertex
\* enters the list twice.  order[k] is the next vertex to scan from.
RECURSIVE Discover(_, _, _, _, _)
Discover(m, n, u, j, order) ==
    IF j >= n THEN order
    ELSE Discover(m, n, u, j + 1,
                  IF Edge(m, u, j) /\ ~In(j, order) THEN Append(order, j) ELSE order)

RECURSIVE ReferenceBfsFrom(_, _, _, _)
ReferenceBfsFrom(m, n, order, k) ==
    IF k > Len(order) THEN order
    ELSE ReferenceBfsFrom(m, n, Discover(m, n, order[k], 0, order), k + 1)

ReferenceBfs(m, n, s) == ReferenceBfsFrom(m, n, <<s>>, 1)

\* The least of a non-empty set of distances
Least(S) ==
    IF S = {Inf} THEN Inf
    ELSE CHOOSE x \in S \ {Inf} : \A y \in S \ {Inf} : x <= y

\* One round of Bellman-Ford: every vertex takes the best of its distance
\* and of its predecessors' distances plus the edge
Round(m, n, D) ==
    [i \in 1..n |->
        Least({D[i]} \cup {Plus(D[j], m[j][i]) : j \in {k \in 1..n : m[k][i] > 0}})]

RECURSIVE Rounds(_, _, _, _)
Rounds(m, n, D, k) == IF k = 0 THEN D ELSE Rounds(m, n, Round(m, n, D), k - 1)

\* The weight of a lightest path from s to each vertex, Inf where none is
ShortestDistances(m, n, s) ==
    Rounds(m, n, [[i \in 1..n |-> Inf] EXCEPT ![s + 1] = 0], n)

NoDuplicates(lst) == \A j, k \in 1..Len(lst) : lst[j] = lst[k] => j = k

InRange(i) == i >= 0 /\ i < v_count

\* A finished dfs or bfs call with a valid start
TraversalDone ==
    /\ pc = "done"
    /\ call.op \in {"dfs", "bfs"}
    /\ InRange(call.v_start)

----------------------------------------------------------------------------
(* Properties                                                              *)

\* C1: after construction and any sequence of add_vertex, add_edge and
\* remove_edge calls, valid or not, the matrix has v_count rows of v_count
\* entries each, a zero diagonal and no negative entry.
C1_SquareZeroDiagonal ==
    /\ Len(adj_matrix) = v_count
    /\ \A i \in 1..Len(adj_matrix) :
          /\ Len(adj_matrix[i]) = v_count
          /\ adj_matrix[i][i] = 0
          /\ \A j \in 1..v_count : adj_matrix[i][j] >= 0

C1_Witness ==
    /\ call.op = "remove_edge"
    /\ v_count = 3
    /\ adj_matrix[1][2] > 0
    /\ adj_matrix[3][1] > 0
    /\ adj_matrix[2][3] = 0

ValidEdge(src, dst) == InRange(src) /\ InRange(dst)

\* The cells in which two matrices of the same shape differ
Changed(m1, m2) ==
    {p \in (1..Len(m1)) \X (1..Len(m1)) : m1[p[1]][p[2]] # m2[p[1]][p[2]]}

\* C2: in every reachable state, an add_edge call with an index out of
\* range, src = dst or weight < 1, and a remove_edge call with an index out
\* of range, raise nothing and leave the matrix as it was, and a valid call
\* changes the one entry [src][dst], to weight and to 0; every step of
\* add_edge and remove_edge leaves v_count alone, raises nothing and changes
\* at most one entry.
C2_SilentNoOp ==
    /\ [](/\ \A src \in IdxArgs, dst \in IdxArgs, weight \in WeightArgs :
                LET r == add_edge(v_count, adj_matrix, src, dst, weight)
                IN  /\ r.ok
                    /\ r.m = IF ValidEdge(src, dst) /\ src # dst /\ weight >= 1
                             THEN [adj_matrix EXCEPT ![src + 1][dst + 1] = weight]
                             ELSE adj_matrix
          /\ \A src \in IdxArgs, dst \in IdxArgs :
                LET r == remove_edge(v_count, adj_matrix, src, dst)
                IN  /\ r.ok
                    /\ r.m = IF ValidEdge(src, dst)
                             THEN [adj_matrix EXCEPT ![src + 1][dst + 1] = 0]
                             ELSE adj_matrix)
    /\ [][call'.op \in {"add_edge", "remove_edge"} =>
            /\ ~raised'
            /\ v_count' = v_count
            /\ Len(adj_matrix') = Len(adj_matrix)
            /\ Cardinality(Changed(adj_matrix, adj_matrix')) <= 1
            /\ \A p \in Changed(adj_matrix, adj_matrix') :
                  IF call'.op = "add_edge"
                  THEN adj_matrix'[p[1]][p[2]] >= 1
                  ELSE adj_matrix'[p[1]][p[2]] = 0
       ]_vars

C2_Witness ==
    /\ call.op = "add_edge"
    /\ ~raised
    /\ v_count = 3
    /\ adj_matrix = <<<<0, 0, 0>>, <<0, 0, 1>>, <<0, 0, 0>>>>

\* C3: dfs(start, end) and bfs(start, end) with a valid start and an end
\* out of range return what dfs(start) and bfs(start) return.
C3_InvalidEndIsNoTarget ==
    (/\ TraversalDone
     /\ call.v_end # None
     /\ ~InRange(call.v_end[1]))
    => ret = Some(IF call.op = "dfs"
                  THEN DfsLoop(adj_matrix, << >>, <<call.v_start>>, None)
                  ELSE BfsLoop(adj_matrix, v_count, << >>, <<call.v_start>>, None))

\* C4: dfs(start, target) and bfs(start, target), the target in range and
\* reachable from start by a path of at least one edge, return a sequence
\* that begins with start and ends with the target.
C4_StopsAtTarget ==
    (/\ TraversalDone
     /\ call.v_end # None
     /\ InRange(call.v_end[1])
     /\ call.v_end[1] \in ReachableByEdges(adj_matrix, v_count, call.v_start))
    => /\ ret # None
       /\ Len(ret[1]) >= 1
       /\ ret[1][1] = call.v_start
       /\ ret[1][Len(ret[1])] = call.v_end[1]

\* C5: dfs(start) and bfs(start) return a sequence that begins with start,
\* holds valid indices only, holds no vertex twice, is no longer than
\* v_count, and holds exactly the vertices reachable from start.
C5_VisitsReachableOnce ==
    (TraversalDone /\ call.v_end = None)
    => /\ ret # None
       /\ Len(ret[1]) >= 1
       /\ ret[1][1] = call.v_start
       /\ \A k \in 1..Len(ret[1]) : InRange(ret[1][k])
       /\ NoDuplicates(ret[1])
       /\ Len(ret[1]) <= v_count
       /\ {ret[1][k] : k \in 1..Len(ret[1])} = Reachable(adj_matrix, v_count, call.v_start)

\* A dfs over 0 -> 1, 0 -> 2, 1 -> 2: vertex 2 is pushed twice, and is
\* scanned again when it is popped the second time.
C5_Witness ==
    /\ TraversalDone
    /\ call = [op |-> "dfs", v_start |-> 0, v_end |-> None]
    /\ adj_matrix = <<<<0, 1, 1>>, <<0, 0, 1>>, <<0, 0, 0>>>>
    /\ ret = Some(<<0, 1, 2>>)

\* C6: bfs(start) returns the order of the breadth-first search by the
\* book, vertices in non-decreasing number of edges from start; on the
\* graph of the examples bfs(0) is [0, 1, 4, 3, 2].
C6_BfsOrder ==
    (TraversalDone /\ call.op = "bfs" /\ call.v_end = None)
    => /\ ret = Some(ReferenceBfs(adj_matrix, v_count, call.v_start))
       /\ \A j, k \in 1..Len(ret[1]) :
             j <= k => Hops(adj_matrix, v_count, call.v_start, ret[1][j])
                         <= Hops(adj_matrix, v_count, call.v_start, ret[1][k])
       /\ (adj_matrix = ExampleGraph /\ call.v_start = 0) => ret = Some(<<0, 1, 4, 3, 2>>)

C6_Witness ==
    /\ TraversalDone
    /\ call = [op |-> "bfs", v_start |-> 0, v_end |-> None]
    /\ adj_matrix = ExampleGraph
    /\ ret = Some(<<0, 1, 4, 3, 2>>)

Triangle == <<<<0, 1, 0>>, <<0, 0, 1>>, <<1, 0, 0>>>>

\* C7: has_cycle() is true exactly when the graph has a directed cycle; it
\* is true on the triangle 0 -> 1 -> 2 -> 0 and false on the triangle with
\* any one edge removed.
C7_HasCycleExact ==
    (pc = "done" /\ call.op = "has_cycle")
    => /\ ret = Some(HasDirectedCycle(adj_matrix, v_count))
       /\ adj_matrix = Triangle => ret = Some(TRUE)
       /\ \A e \in {<<1, 2>>, <<2, 3>>, <<3, 1>>} :
             adj_matrix = [Triangle EXCEPT ![e[1]][e[2]] = 0] => ret = Some(FALSE)

\* has_cycle() has answered on a cycle that does not pass through vertex 0.
C7_Witness ==
    /\ pc = "done"
    /\ call.op = "has_cycle"
    /\ adj_matrix = <<<<0, 0, 0>>, <<0, 0, 1>>, <<0, 1, 0>>>>
    /\ ret = Some(TRUE)

\* C8: dijkstra(source) returns v_count distances: 0 for the source, the
\* weight of a lightest path for a reachable vertex, the infinity sentinel
\* for an unreachable one.
C8_ShortestDistances ==
    (pc = "done" /\ call.op = "dijkstra")
    => /\ ret # None
       /\ Len(ret[1]) = v_count
       /\ ret[1][call.src + 1] = 0
       /\ ret[1] = ShortestDistances(adj_matrix, v_count, call.src)
       /\ \A i \in 0..(v_count - 1) :
             ret[1][i + 1] = Inf <=> i \notin Reachable(adj_matrix, v_count, call.src)

\* Vertex 1 left the queue with distance MaxWeight, was then reached through
\* vertex 2 with distance 2, was queued again and passed the gain on to
\* vertex 3.
C8_Witness ==
    /\ pc = "done"
    /\ call = [op |-> "dijkstra", src |-> 0]
    /\ adj_matrix = <<<<0, MaxWeight, 1, 0>>, <<0, 0, 0, 1>>, <<0, 1, 0, 0>>, <<0, 0, 0, 0>>>>
    /\ ret = Some(<<0, 2, 1, 3>>)

\* C9: every call of dfs, bfs, has_cycle and dijkstra returns.
C9_Terminates == <>(pc = "done")

\* has_cycle() has returned False on 0 -> 1, 0 -> 2, 1 -> 2, after the
\* recursion bottomed out on every walk.
C9_Witness ==
    /\ pc = "done"
    /\ call.op = "has_cycle"
    /\ adj_matrix = <<<<0, 1, 1>>, <<0, 0, 1>>, <<0, 0, 0>>>>
    /\ ret = Some(FALSE)
    /\ frames = << >>

\* The largest index an edge list refers to, -1 when it refers to none
RECURSIVE LargestIndex(_)
LargestIndex(edges) ==
    IF edges = << >> THEN -1
    ELSE Max2(Max2(LargestIndex(Tail(edges)), Head(edges)[1]), Head(edges)[2])

\* The weight of the last valid triple of the list for the cell (i, j), 0
\* when there is none
RECURSIVE LastWeight(_, _, _, _)
LastWeight(edges, n, i, j) ==
    IF edges = << >> THEN 0
    ELSE LET e == edges[Len(edges)]
         IN  IF /\ e[1] = i /\ e[2] = j /\ i # j /\ e[3] >= 1
                /\ i >= 0 /\ i < n /\ j >= 0 /\ j < n
             THEN e[3]
             ELSE LastWeight(SubSeq(edges, 1, Len(edges) - 1), n, i, j)

\* C10: the constructed graph has as many vertices as the largest index of
\* the list plus 1, none when the list refers to no vertex, and holds the
\* valid edges of the list, each with its last weight.
C10_SizedByLargestIndex ==
    (pc = "done" /\ call.op = "__init__" /\ call.start_edges # None)
    => LET edges == call.start_edges[1]
       IN  /\ v_count = LargestIndex(edges) + 1
           /\ Len(adj_matrix) = v_count
           /\ \A i, j \in 0..(v_count - 1) :
                 adj_matrix[i + 1][j + 1] = LastWeight(edges, v_count, i, j)

====
